---- MODULE Spec2Model ----
(***************************************************************************)
(* ENAS search loops of the NAS-Cookbook recipes:                          *)
(*   recipe 1  (src/unnamed/part_000)  Controller / SharedCNN / train_enas *)
(*   recipe 3  (src/unnamed/part_001)  PPOController / ppo_update /        *)
(*                                     train_enas_ppo                      *)
(*   recipe 8  (src/recipes/08_uncertainty_aware_enas.ipynb)               *)
(*             UncertaintyAwareController / Cell / Network /               *)
(*             train_uncertainty_aware_enas                                *)
(*                                                                         *)
(* Abstractions.  Floating-point tensors are kept symbolically:            *)
(*   - the parameters of a module are a version number, advanced by one by *)
(*     every optimizer step;                                               *)
(*   - the recurrent state (h, c) is the number of LSTMCell applications   *)
(*     made on the zero state (the input x is always the zero vector, so   *)
(*     under fixed parameters nothing else determines it);                 *)
(*   - a log-probability is <<p, h, a>>: log softmax(linear_p(h))[a];      *)
(*     a value estimate / value distribution is <<p, h>>;                  *)
(*   - the random generator is a counter-based stream of numbers in        *)
(*     0..RngMod-1; multinomial draws by inverse CDF from the next one;    *)
(*   - Python exceptions are the value of err; an exception ends the run.  *)
(***************************************************************************)
EXTENDS Integers, Sequences, FiniteSets, TLC

VARIABLES
    variant,        \* which recipe's loop runs: "enas", "ppo", "ua"
    netKind,        \* class of the weight-sharing network object
    numCells,       \* len(network.cells)
    num_epochs,     \* argument num_epochs
    trainLen,       \* number of minibatches train_data yields
    valLen,         \* number of minibatches val_data yields
    epoch,          \* loop variable epoch = number of completed epochs
    batch,          \* minibatches of train_data consumed in this epoch
    pc,             \* position in the function
    err,            \* "none", or the exception that ended the run
    netParams,      \* version of network.parameters()
    ctrlParams,     \* version of controller.parameters()
    rng,            \* state of torch's default generator
    h,              \* local h of the sampler (recurrent state)
    actions,        \* local actions
    log_probs,      \* local log_probs
    values,         \* local values / value_dists
    rewards,        \* local rewards
    log_probs_list, \* old_log_probs_list / log_probs_list
    values_list,    \* old_values_list / value_dists_list
    actions_list,   \* actions_list
    reward,         \* local reward of train_enas (the advantages)
    newActions,     \* ppo_update: new_actions
    newLogProbs,    \* ppo_update: new_log_probs
    inner,          \* index of the PPO inner loop
    loss,           \* terms of the last controller loss that was computed
    trajs,          \* history: log-probabilities returned by each sample of the phase
    evals,          \* history: number of evaluate calls that returned in the phase
    calls,          \* history: the sampler calls that returned (sampler specification)
    callN,          \* sampler specification: argument num_cells of the running call
    callG0,         \* sampler specification: generator state when the call began
    callSteps       \* sampler specification: h, logits and draw of each step of the call

vars == <<variant, netKind, numCells, num_epochs, trainLen, valLen, epoch, batch,
          pc, err, netParams, ctrlParams, rng, h, actions, log_probs, values,
          rewards, log_probs_list, values_list, actions_list, reward, newActions,
          newLogProbs, inner, loss, trajs, evals, calls, callN, callG0, callSteps>>

(***************************************************************************)
(* Program constants                                                       *)
(***************************************************************************)
NUM_LAYERS == 4
NUM_NODES == 4
NumOpsLayer == 3
NumOpsCell == 5
NumSamples == 10
PpoSteps == 5

(***************************************************************************)
(* Bounds of the model                                                     *)
(***************************************************************************)
MaxEpochs == 2
MaxTrain == 2
MaxVal == 1
MaxCells == 2
MaxSeed == 1
MaxParams == 1
MaxArchLen == 5
RngMod == 16

Variants == {"enas", "ppo", "ua"}

NUM_OPS(v) == IF v = "enas" THEN NumOpsLayer ELSE NumOpsCell

\* Decisions of one cell: the inner loop range(NUM_NODES * 3).
CellDecisions == NUM_NODES * 3

\* Number of decision steps one forward(num_cells) call makes.
DecisionCount(v, n) == IF v = "enas" THEN n ELSE n * CellDecisions

Min(a, b) == IF a < b THEN a ELSE b
Max(a, b) == IF a > b THEN a ELSE b

RECURSIVE Pow2(_)
Pow2(n) == IF n <= 0 THEN 1 ELSE 2 * Pow2(n - 1)

RECURSIVE SumSeq(_)
SumSeq(s) == IF Len(s) = 0 THEN 0 ELSE Head(s) + SumSeq(Tail(s))

(***************************************************************************)
(* The controller's decision step                                          *)
(***************************************************************************)
\* torch.zeros(1, hidden_size) for h and c at the start of forward.
InitHiddenStale(prev) == prev
InitHidden(prev) == 0

\* self.linear(h) / self.actor(h): one logit per operation.
Logits(v, p, hid) == [a \in 1..NUM_OPS(v) |-> (p + hid * a) % 3]

\* torch.softmax, up to the common normaliser: strictly positive weights.
Softmax(logits) == [a \in 1..Len(logits) |-> Pow2(logits[a])]

\* torch.multinomial(probs, 1).item(): inverse CDF of the generator's draw.
RECURSIVE PickCdf(_, _, _)
PickCdf(w, u, i) ==
    IF i >= Len(w) \/ u < w[i] THEN i ELSE PickCdf(w, u - w[i], i + 1)

MultinomialOneBased(probs, u) == PickCdf(probs, u % SumSeq(probs), 1)
Multinomial(probs, u) == PickCdf(probs, u % SumSeq(probs), 1) - 1

\* The generator is a counter-based stream <<seed, position>>: the uniform
\* number a draw consumes, and the generator after one draw.
Uniform(g) == (7 * g[1] + 5 * g[2] + ((g[2] * g[2]) \div 3)) % RngMod

\* torch.manual_seed(seed)
ManualSeedRng(seed) == <<seed, 0>>

\* torch.log(probs[0, action]) under parameters p at recurrent state hid.
LogProb(p, hid, a) == <<p, hid, a>>

\* self.critic(h), or Normal(critic_mean(h), exp(critic_std(h))).
ValueHead(p, hid) == <<p, hid>>

\* Body of the decision loop from the recurrent state hid the LSTM cell left
\* and the generator g: logits, softmax, multinomial, log-probability, value.
Decide(v, p, hid, g) ==
    LET probs == Softmax(Logits(v, p, hid))
        a == Multinomial(probs, Uniform(g))
    IN  [a |-> a, lp |-> LogProb(p, hid, a), val |-> ValueHead(p, hid)]

\* The recurrent state after j applications of the cell to hid, and the
\* generator after j draws from g.
LstmIter(hid, j) == hid + j
RngIter(g, j) == <<g[1], g[2] + j>>

\* k iterations of the decision loop on st = [h, g, acts, lps, vals]:
\* iteration j applies the cell (x is the zero vector) and decides from the
\* state j applications of the cell and j - 1 draws have left.
RunSteps(v, p, st, k) ==
    LET d == [j \in 1..k |-> Decide(v, p, LstmIter(st.h, j), RngIter(st.g, j - 1))]
    IN  [h |-> LstmIter(st.h, k),
         g |-> RngIter(st.g, k),
         acts |-> st.acts \o [j \in 1..k |-> d[j].a],
         lps |-> st.lps \o [j \in 1..k |-> d[j].lp],
         vals |-> IF v = "enas" THEN st.vals ELSE st.vals \o [j \in 1..k |-> d[j].val]]

\* One iteration of the decision loop: inputs = torch.zeros(1, hidden_size),
\* so the cell sees nothing of the action drawn before.
DecisionStepFeedback(v, p, st) ==
    RunSteps(v, p,
             [st EXCEPT !.h = st.h + (IF Len(st.acts) = 0 THEN 0 ELSE st.acts[Len(st.acts)])],
             1)
DecisionStep(v, p, st) == RunSteps(v, p, st, 1)

\* actions.append(cell_actions): the flat draws grouped cell by cell.
GroupCells(acts, n) ==
    [c \in 1..n |-> SubSeq(acts, (c - 1) * CellDecisions + 1, c * CellDecisions)]

\* What forward returns from the final loop state: torch.stack raises on an
\* empty list of log-probabilities.
ForwardResult(v, n, st) ==
    [err |-> IF Len(st.lps) = 0 THEN "RuntimeError" ELSE "none",
     actions |-> IF v = "enas" THEN st.acts ELSE GroupCells(st.acts, n),
     log_probs |-> st.lps,
     values |-> st.vals,
     h |-> st.h,
     g |-> st.g]

\* The loop state at the start of forward.
ForwardStart(prevH, g) ==
    [h |-> InitHidden(prevH), g |-> g, acts |-> <<>>, lps |-> <<>>, vals |-> <<>>]

\* controller(num_cells): Controller.forward, PPOController.forward,
\* UncertaintyAwareController.forward.
Forward(v, p, prevH, g, n) ==
    ForwardResult(v, n, RunSteps(v, p, ForwardStart(prevH, g), DecisionCount(v, n)))

(***************************************************************************)
(* The weight-sharing networks                                             *)
(***************************************************************************)
NoError == "none"

\* SharedCNN.forward: zip(self.layers, actions) pairs as many layers as there
\* are actions and stops; self.ops[action] raises on an index outside the list.
SharedCNNForward(acts) ==
    LET applied == Min(NUM_LAYERS, Len(acts))
    IN  [err |-> IF \E i \in 1..applied : acts[i] >= NumOpsLayer \/ acts[i] < -NumOpsLayer
                 THEN "IndexError" ELSE NoError,
         applied |-> applied]

\* Cell.forward: zip(self.nodes, actions) pairs nodes with the entries of the
\* cell's action list; each entry is unpacked into (op1, op2, combine), which
\* raises TypeError on the int the controller put there.
CellForward(cell_action) ==
    IF Min(NUM_NODES, Len(cell_action)) = 0 THEN NoError ELSE "TypeError"

\* Network.forward: zip(self.cells, actions) pairs cells with action groups.
NetworkForward(cells, acts) ==
    LET applied == Min(cells, Len(acts))
    IN  [err |-> IF \E i \in 1..applied : CellForward(acts[i]) # NoError
                 THEN "TypeError" ELSE NoError,
         applied |-> applied]

\* A network object honouring the train_step / evaluate interface: it runs an
\* architecture of the expected shape and signals any other.  train_enas_ppo
\* takes its network from a module that is not part of the recipe; the
\* uncertainty-aware loop accepts any such object as its network argument.
CollaboratorForward(cells, acts) ==
    [err |-> IF Len(acts) # cells \/ \E i \in 1..Len(acts) : Len(acts[i]) # CellDecisions
             THEN "ShapeMismatch" ELSE NoError,
     applied |-> Min(cells, Len(acts))]

\* network(x, actions) / shared_cnn(x, actions) / model(x, actions).
NetForward(kind, cells, acts) ==
    CASE kind = "SharedCNN" -> SharedCNNForward(acts)
      [] kind = "Network" -> NetworkForward(cells, acts)
      [] OTHER -> CollaboratorForward(cells, acts)

NetKinds(v) ==
    CASE v = "enas" -> {"SharedCNN"}
      [] v = "ppo" -> {"Collaborator"}
      [] OTHER -> {"Network", "Collaborator"}

\* shared_optim.step() / network_optim.step(): Adam over the network's parameters.
SharedStepBoth(np, cp) == [net |-> np + 1, ctrl |-> cp + 1]
SharedStep(np, cp) == [net |-> np + 1, ctrl |-> cp]

\* controller_optim.step() / ppo_optim.step(): Adam over the controller's parameters.
ControllerStep(np, cp) == [net |-> np, ctrl |-> cp + 1]

\* zero_grad; loss = CrossEntropyLoss()(network(x, actions), y); backward; step.
TrainOn(kind, cells, np, cp, acts) ==
    LET f == NetForward(kind, cells, acts)
    IN  IF f.err # NoError
        THEN [err |-> f.err, net |-> np, ctrl |-> cp]
        ELSE [err |-> NoError, net |-> SharedStep(np, cp).net, ctrl |-> SharedStep(np, cp).ctrl]

(***************************************************************************)
(* evaluate                                                                *)
(***************************************************************************)
\* (predicted == y).sum().item() for minibatch i, each minibatch one example.
Correct(np, sig, i) == (np + sig + i) % 2

RECURSIVE CorrectUpTo(_, _, _)
CorrectUpTo(np, sig, n) ==
    IF n <= 0 THEN 0 ELSE Correct(np, sig, n) + CorrectUpTo(np, sig, n - 1)

\* evaluate(model, actions, data): correct / total over the minibatches.
Evaluate(kind, cells, np, sig, acts, vlen) ==
    IF vlen > 0 /\ NetForward(kind, cells, acts).err # NoError
    THEN [err |-> NetForward(kind, cells, acts).err, acc |-> <<0, 1>>]
    ELSE IF vlen = 0
    THEN [err |-> "ZeroDivisionError", acc |-> <<0, 1>>]
    ELSE [err |-> NoError, acc |-> <<CorrectUpTo(np, sig, vlen), vlen>>]

(***************************************************************************)
(* Tensors: rationals <<numerator, denominator>> and shapes                *)
(***************************************************************************)
RatSub(a, b) == <<a[1] * b[2] - b[1] * a[2], a[2] * b[2]>>
RatAdd(a, b) == <<a[1] * b[2] + b[1] * a[2], a[2] * b[2]>>

RECURSIVE RatSum(_)
RatSum(t) == IF Len(t) = 0 THEN <<0, 1>> ELSE RatAdd(Head(t), RatSum(Tail(t)))

\* tensor.mean()
Mean(t) == <<RatSum(t)[1], RatSum(t)[2] * Len(t)>>

\* tensor - scalar
SubScalar(t, m) == [i \in 1..Len(t) |-> RatSub(t[i], m)]

IsZero(r) == r[1] = 0

\* Broadcasting of two shapes: right-aligned, each pair of sizes equal or one 1.
PadShape(s, n) == [i \in 1..n |-> IF i <= n - Len(s) THEN 1 ELSE s[i - (n - Len(s))]]

Broadcast(s1, s2) ==
    LET n == Max(Len(s1), Len(s2))
        a == PadShape(s1, n)
        b == PadShape(s2, n)
    IN  [ok |-> \A i \in 1..n : a[i] = b[i] \/ a[i] = 1 \/ b[i] = 1,
         shape |-> [i \in 1..n |-> Max(a[i], b[i])]]

\* torch.cat of a list of tensors along dimension 0.
RECURSIVE Cat(_)
Cat(l) == IF Len(l) = 0 THEN <<>> ELSE Head(l) \o Cat(Tail(l))

\* What the predictions of the network depend on in an architecture.
ArchSig(v, acts) == IF v = "enas" THEN SumSeq(acts) ELSE SumSeq(Cat(acts))

(***************************************************************************)
(* ppo_update                                                              *)
(***************************************************************************)
\* new_actions, new_log_probs, new_values = ppo_controller(len(actions)), then
\* the element-wise tensor expressions, each of which raises RuntimeError when
\* its operands do not broadcast.  values are (n, 1) tensors (torch.cat of
\* (1, 1) critic outputs), log-probabilities and rewards are 1-D.
PpoUpdate(p, prevH, g, old_log_probs, old_values, rews, acts_list) ==
    LET s == Forward("ppo", p, prevH, g, Len(acts_list))
        ratios == Broadcast(<<Len(s.log_probs)>>, <<Len(old_log_probs)>>)
        advantages == Broadcast(<<Len(rews)>>, <<Len(old_values), 1>>)
        surr == Broadcast(ratios.shape, advantages.shape)
        critic == Broadcast(<<Len(s.values), 1>>, <<Len(rews)>>)
    IN  [err |-> IF s.err # NoError THEN s.err
                 ELSE IF ratios.ok /\ advantages.ok /\ surr.ok /\ critic.ok
                      THEN NoError ELSE "RuntimeError",
         new_actions |-> s.actions,
         new_log_probs |-> s.log_probs,
         new_values |-> s.values,
         h |-> s.h,
         g |-> s.g,
         loss |-> <<[lp |-> s.log_probs, old |-> old_log_probs, r |-> rews,
                     v |-> old_values]>>]

(***************************************************************************)
(* The search loops                                                        *)
(***************************************************************************)
Unbound == [bound |-> FALSE, t |-> <<>>]

\* The argument the loops pass to the controller.
SampleArg(v, cells) == IF v = "enas" THEN NUM_LAYERS ELSE cells

InitLocals ==
    /\ epoch = 0
    /\ batch = 0
    /\ err = NoError
    /\ netParams = 0
    /\ ctrlParams = 0
    /\ h = 0
    /\ log_probs = <<>>
    /\ values = <<>>
    /\ rewards = <<>>
    /\ log_probs_list = <<>>
    /\ values_list = <<>>
    /\ actions_list = <<>>
    /\ reward = Unbound
    /\ newActions = <<>>
    /\ newLogProbs = <<>>
    /\ inner = 0
    /\ loss = <<>>
    /\ trajs = <<>>
    /\ evals = 0
    /\ calls = <<>>
    /\ callN = 0
    /\ callG0 = <<0, 0>>
    /\ callSteps = <<>>

Init ==
    /\ variant \in Variants
    /\ netKind \in NetKinds(variant)
    /\ numCells \in IF variant = "enas" THEN {NUM_LAYERS} ELSE 1..MaxCells
    /\ num_epochs \in 0..MaxEpochs
    /\ trainLen \in 0..MaxTrain
    /\ valLen \in 0..MaxVal
    /\ rng \in {ManualSeedRng(seed) : seed \in 0..MaxSeed}
    /\ pc = "loop"
    /\ actions = <<>>
    /\ InitLocals

config == <<variant, netKind, numCells, num_epochs, trainLen, valLen>>
samplerHist == <<calls, callN, callG0, callSteps>>
ppoLocals == <<newActions, newLogProbs, inner>>

\* for epoch in range(num_epochs): ... network.train()
LoopHead ==
    /\ pc = "loop" /\ err = NoError
    /\ IF epoch < num_epochs
       THEN pc' = "train" /\ batch' = 0
       ELSE pc' = "done" /\ batch' = batch
    /\ UNCHANGED <<config, samplerHist, ppoLocals, epoch, err, netParams, ctrlParams,
                   rng, h, actions, log_probs, values, rewards, log_probs_list,
                   values_list, actions_list, reward, loss, trajs, evals>>

\* One iteration of "for x, y in train_data": sample, zero_grad, forward, loss,
\* backward, step.
TrainStep ==
    /\ pc = "train" /\ err = NoError /\ batch < trainLen
    /\ LET s == Forward(variant, ctrlParams, h, rng, SampleArg(variant, numCells))
           t == TrainOn(netKind, numCells, netParams, ctrlParams, s.actions)
       IN  /\ rng' = s.g
           /\ h' = s.h
           /\ IF s.err # NoError
              THEN /\ err' = s.err
                   /\ UNCHANGED <<actions, netParams, ctrlParams, batch>>
              ELSE /\ actions' = s.actions
                   /\ err' = t.err
                   /\ netParams' = t.net
                   /\ ctrlParams' = t.ctrl
                   /\ batch' = IF t.err = NoError THEN batch + 1 ELSE batch
    /\ UNCHANGED <<config, samplerHist, ppoLocals, epoch, pc, log_probs, values,
                   rewards, log_probs_list, values_list, actions_list, reward, loss,
                   trajs, evals>>

\* train_data is exhausted: network.eval(); rewards = []; the lists = [].
BeginEval ==
    /\ pc = "train" /\ err = NoError /\ batch = trainLen
    /\ pc' = "sample"
    /\ rewards' = <<>>
    /\ log_probs_list' = <<>>
    /\ values_list' = <<>>
    /\ actions_list' = <<>>
    /\ trajs' = <<>>
    /\ evals' = 0
    /\ UNCHANGED <<config, samplerHist, ppoLocals, epoch, batch, err, netParams,
                   ctrlParams, rng, h, actions, log_probs, values, reward, loss>>

\* What one iteration of the sampling loop keeps of the sample it drew.
KeepSample(v, lst, x) == IF v = "enas" THEN lst ELSE Append(lst, x)

\* One iteration of "for _ in range(10)": sample, evaluate, append.
SampleEval ==
    /\ pc = "sample" /\ err = NoError /\ Len(rewards) < NumSamples
    /\ LET s == Forward(variant, ctrlParams, h, rng, SampleArg(variant, numCells))
           e == Evaluate(netKind, numCells, netParams, ArchSig(variant, s.actions),
                         s.actions, valLen)
       IN  /\ rng' = s.g
           /\ h' = s.h
           /\ IF s.err # NoError
              THEN /\ err' = s.err
                   /\ UNCHANGED <<actions, log_probs, values, rewards, log_probs_list,
                                  values_list, actions_list, trajs, evals>>
              ELSE /\ actions' = s.actions
                   /\ log_probs' = s.log_probs
                   /\ values' = s.values
                   /\ trajs' = Append(trajs, s.log_probs)
                   /\ err' = e.err
                   /\ IF e.err # NoError
                      THEN UNCHANGED <<rewards, log_probs_list, values_list,
                                       actions_list, evals>>
                      ELSE /\ evals' = evals + 1
                           /\ rewards' = Append(rewards, e.acc)
                           /\ log_probs_list' = KeepSample(variant, log_probs_list, s.log_probs)
                           /\ values_list' = KeepSample(variant, values_list, s.values)
                           /\ actions_list' =
                                 IF variant = "ppo" THEN Append(actions_list, s.actions)
                                 ELSE actions_list
    /\ UNCHANGED <<config, samplerHist, ppoLocals, epoch, batch, pc, netParams,
                   ctrlParams, reward, loss>>

\* reward = torch.tensor(rewards) - reward.mean(): the right-hand side reads
\* the local reward, which no earlier statement of the function has assigned.
EnasAdvantage(rewardLocal, rews) ==
    IF ~rewardLocal.bound
    THEN [err |-> "UnboundLocalError", t |-> <<>>]
    ELSE [err |-> NoError, t |-> SubScalar(rews, Mean(rewardLocal.t))]

\* controller_loss = -(log_probs * reward).sum(): log_probs is the local left
\* by the last iteration of the sampling loop.
EnasLoss(lps, adv) ==
    [err |-> IF Broadcast(<<Len(lps)>>, <<Len(adv)>>).ok THEN NoError ELSE "RuntimeError",
     terms |-> <<[lp |-> lps, r |-> adv]>>]

\* train_enas, "# Update controller" to the end of the epoch.
UpdateEnas ==
    /\ pc = "sample" /\ err = NoError /\ Len(rewards) = NumSamples
    /\ variant = "enas"
    /\ LET a == EnasAdvantage(reward, rewards)
           l == EnasLoss(log_probs, a.t)
       IN  IF a.err # NoError
           THEN /\ err' = a.err
                /\ pc' = "update"
                /\ UNCHANGED <<reward, loss, ctrlParams, netParams, epoch>>
           ELSE /\ reward' = [bound |-> TRUE, t |-> a.t]
                /\ IF l.err # NoError
                   THEN /\ err' = l.err
                        /\ pc' = "update"
                        /\ UNCHANGED <<loss, ctrlParams, netParams, epoch>>
                   ELSE /\ err' = NoError
                        /\ loss' = l.terms
                        /\ ctrlParams' = ControllerStep(netParams, ctrlParams).ctrl
                        /\ netParams' = ControllerStep(netParams, ctrlParams).net
                        /\ epoch' = epoch + 1
                        /\ pc' = "loop"
    /\ UNCHANGED <<config, samplerHist, ppoLocals, batch, rng, h, actions, log_probs,
                   values, rewards, log_probs_list, values_list, actions_list, trajs,
                   evals>>

\* for r, lp, vd in zip(rewards, log_probs_list, value_dists_list): the terms
\* of actor_loss and critic_loss, each on lp, r and vd[0].
UaLoss(rews, lpl, vdl) ==
    [i \in 1..Min(Len(rews), Min(Len(lpl), Len(vdl))) |->
        [lp |-> lpl[i], r |-> rews[i], v |-> vdl[i][1]]]

\* train_uncertainty_aware_enas, "# Update controller" to the end of the epoch.
UpdateUA ==
    /\ pc = "sample" /\ err = NoError /\ Len(rewards) = NumSamples
    /\ variant = "ua"
    /\ log_probs' = Cat(log_probs_list)
    /\ loss' = UaLoss(rewards, log_probs_list, values_list)
    /\ ctrlParams' = ControllerStep(netParams, ctrlParams).ctrl
    /\ netParams' = ControllerStep(netParams, ctrlParams).net
    /\ epoch' = epoch + 1
    /\ pc' = "loop"
    /\ UNCHANGED <<config, samplerHist, ppoLocals, batch, err, rng, h, actions, values,
                   rewards, log_probs_list, values_list, actions_list, reward, trajs,
                   evals>>

\* old_log_probs = torch.cat(old_log_probs_list); old_values = torch.cat(old_values_list)
OldLogProbs == Cat(log_probs_list)
OldValues == Cat(values_list)

\* train_enas_ppo, "# Update controller using PPO": the tensors are built and
\* the inner loop is entered.
PpoBegin ==
    /\ pc = "sample" /\ err = NoError /\ Len(rewards) = NumSamples
    /\ variant = "ppo"
    /\ pc' = "ppo"
    /\ inner' = 0
    /\ UNCHANGED <<config, samplerHist, newActions, newLogProbs, epoch, batch, err,
                   netParams, ctrlParams, rng, h, actions, log_probs, values, rewards,
                   log_probs_list, values_list, actions_list, reward, loss, trajs, evals>>

\* One iteration of "for _ in range(5)": zero_grad, ppo_update, backward, step;
\* the last one ends the epoch.
PpoStep ==
    /\ pc = "ppo" /\ err = NoError /\ inner < PpoSteps
    /\ LET u == PpoUpdate(ctrlParams, h, rng, OldLogProbs, OldValues, rewards, actions_list)
       IN  /\ newActions' = u.new_actions
           /\ newLogProbs' = u.new_log_probs
           /\ rng' = u.g
           /\ h' = u.h
           /\ err' = u.err
           /\ IF u.err # NoError
              THEN UNCHANGED <<loss, ctrlParams, netParams, inner, epoch, pc>>
              ELSE /\ loss' = u.loss
                   /\ ctrlParams' = ControllerStep(netParams, ctrlParams).ctrl
                   /\ netParams' = ControllerStep(netParams, ctrlParams).net
                   /\ inner' = inner + 1
                   /\ IF inner + 1 = PpoSteps
                      THEN epoch' = epoch + 1 /\ pc' = "loop"
                      ELSE UNCHANGED <<epoch, pc>>
    /\ UNCHANGED <<config, samplerHist, batch, actions, log_probs, values, rewards,
                   log_probs_list, values_list, actions_list, reward, trajs, evals>>

Next ==
    \/ LoopHead
    \/ TrainStep
    \/ BeginEval
    \/ SampleEval
    \/ UpdateEnas
    \/ UpdateUA
    \/ PpoBegin
    \/ PpoStep

Spec == Init /\ [][Next]_vars

(***************************************************************************)
(* The sampler on its own: calls of forward, decision by decision, with    *)
(* torch.manual_seed and controller optimizer steps between the calls.     *)
(***************************************************************************)
\* Arguments a caller can pass as num_cells.
CallArgs(v) == 0..(IF v = "enas" THEN NUM_LAYERS ELSE MaxCells)

InitSample ==
    /\ variant \in Variants
    /\ netKind \in NetKinds(variant)
    /\ numCells = SampleArg(variant, 1)
    /\ num_epochs = 0
    /\ trainLen = 0
    /\ valLen = 0
    /\ rng \in {ManualSeedRng(seed) : seed \in 0..MaxSeed}
    /\ pc = "idle"
    /\ actions = <<>>
    /\ InitLocals

loopLocals == <<epoch, batch, err, netParams, rewards, log_probs_list, values_list,
                actions_list, reward, loss, trajs, evals>>

\* torch.manual_seed(seed) between two calls.
ManualSeed ==
    /\ pc = "idle"
    /\ \E seed \in 0..MaxSeed : rng' = ManualSeedRng(seed)
    /\ rng' # rng
    /\ UNCHANGED <<config, samplerHist, ppoLocals, loopLocals, pc, ctrlParams, h,
                   actions, log_probs, values>>

\* An optimizer step on the controller between two calls.
StepBetweenCalls ==
    /\ pc = "idle" /\ ctrlParams < MaxParams
    /\ ctrlParams' = ControllerStep(netParams, ctrlParams).ctrl
    /\ UNCHANGED <<config, samplerHist, ppoLocals, loopLocals, pc, rng, h, actions,
                   log_probs, values>>

\* forward(num_cells) is entered: h, c = zeros; the lists are empty.
CallBegin ==
    /\ pc = "idle" /\ Len(calls) < 2
    /\ \E n \in CallArgs(variant) : callN' = n
    /\ callG0' = rng
    /\ callSteps' = <<>>
    /\ h' = ForwardStart(h, rng).h
    /\ actions' = ForwardStart(h, rng).acts
    /\ log_probs' = ForwardStart(h, rng).lps
    /\ values' = ForwardStart(h, rng).vals
    /\ pc' = "run"
    /\ UNCHANGED <<config, ppoLocals, loopLocals, calls, ctrlParams, rng>>

\* One iteration of the decision loop of the running call.
CallDecide ==
    /\ pc = "run" /\ Len(log_probs) < DecisionCount(variant, callN)
    /\ LET st == DecisionStep(variant, ctrlParams,
                     [h |-> h, g |-> rng, acts |-> actions, lps |-> log_probs,
                      vals |-> values])
       IN  /\ h' = st.h
           /\ rng' = st.g
           /\ actions' = st.acts
           /\ log_probs' = st.lps
           /\ values' = st.vals
           /\ callSteps' = Append(callSteps,
                                  [h |-> st.h,
                                   logits |-> Logits(variant, ctrlParams, st.h),
                                   a |-> st.acts[Len(st.acts)]])
    /\ UNCHANGED <<config, calls, callN, callG0, ppoLocals, loopLocals, pc, ctrlParams>>

\* The running call returns (or torch.stack raises).
CallReturn ==
    /\ pc = "run" /\ Len(log_probs) = DecisionCount(variant, callN)
    /\ LET r == ForwardResult(variant, callN,
                    [h |-> h, g |-> rng, acts |-> actions, lps |-> log_probs,
                     vals |-> values])
       IN  /\ actions' = r.actions
           /\ calls' = Append(calls, [n |-> callN, p |-> ctrlParams, g0 |-> callG0,
                                       err |-> r.err, actions |-> r.actions,
                                       log_probs |-> r.log_probs,
                                       steps |-> callSteps])
    /\ pc' = "idle"
    /\ UNCHANGED <<config, ppoLocals, loopLocals, callN, callG0, callSteps, ctrlParams,
                   rng, h, log_probs, values>>

NextSample ==
    \/ ManualSeed
    \/ StepBetweenCalls
    \/ CallBegin
    \/ CallDecide
    \/ CallReturn

SpecSample == InitSample /\ [][NextSample]_vars

(***************************************************************************)
(* The training step on a given architecture                               *)
(***************************************************************************)
\* Architectures a caller can hand to the network: for SharedCNN a list of
\* operation indices, for the cell network a list of per-cell lists.
RECURSIVE SeqsUpTo(_, _)
SeqsUpTo(S, n) ==
    IF n = 0 THEN {<<>>}
    ELSE LET shorter == SeqsUpTo(S, n - 1)
         IN  shorter \cup {Append(t, x) : t \in {u \in shorter : Len(u) = n - 1}, x \in S}

CellGroups == {[j \in 1..k |-> 0] : k \in {0, 1, NUM_NODES, CellDecisions}}

GivenArchs(v) ==
    IF v = "enas" THEN SeqsUpTo(0..(NumOpsLayer - 1), MaxArchLen)
    ELSE SeqsUpTo(CellGroups, MaxCells + 1)

InitGiven ==
    /\ variant \in {"enas", "ua"}
    /\ netKind \in NetKinds(variant) \ {"Collaborator"}
    /\ numCells \in IF variant = "enas" THEN {NUM_LAYERS} ELSE 1..MaxCells
    /\ num_epochs = 1
    /\ trainLen = 1
    /\ valLen = 0
    /\ rng = ManualSeedRng(0)
    /\ pc = "given"
    /\ InitLocals
    /\ actions \in GivenArchs(variant)

\* zero_grad; loss on network(x, actions); backward; step, for the given actions.
TrainGiven ==
    /\ pc = "given" /\ actions \in GivenArchs(variant)
    /\ LET t == TrainOn(netKind, numCells, netParams, ctrlParams, actions)
       IN  /\ err' = t.err
           /\ netParams' = t.net
           /\ ctrlParams' = t.ctrl
    /\ pc' = "stepped"
    /\ UNCHANGED <<config, samplerHist, ppoLocals, epoch, batch, rng, h, actions,
                   log_probs, values, rewards, log_probs_list, values_list,
                   actions_list, reward, loss, trajs, evals>>

SpecTrainStep == InitGiven /\ [][TrainGiven]_vars

(***************************************************************************)
(* The PPO inner loop on a collected batch                                 *)
(***************************************************************************)
\* Sample i of a batch the controller draws under parameters p from generator
\* g for a network of cells cells: every sample starts where the one before
\* left the generator.
BatchSample(p, g, cells, i) ==
    Forward("ppo", p, 0, RngIter(g, (i - 1) * DecisionCount("ppo", cells)), cells)

\* The state train_enas_ppo is in when it enters the inner loop of an epoch:
\* the earlier epochs have taken their optimizer steps, the batch was
\* collected under the current controller parameters, and the rewards are the
\* accuracies on a one-minibatch validation set.
InitPpo ==
    /\ variant = "ppo"
    /\ netKind \in NetKinds("ppo")
    /\ numCells \in 1..MaxCells
    /\ num_epochs = MaxEpochs
    /\ trainLen \in 0..MaxTrain
    /\ valLen = 1
    /\ pc = "ppo"
    /\ epoch \in 0..(MaxEpochs - 1)
    /\ batch = trainLen
    /\ err = NoError
    /\ netParams = trainLen * (epoch + 1)
    /\ ctrlParams = PpoSteps * epoch
    /\ \E seed \in 0..MaxSeed, pos \in 0..MaxTrain :
          LET g0 == RngIter(ManualSeedRng(seed), pos)
              b == [i \in 1..NumSamples |-> BatchSample(ctrlParams, g0, numCells, i)]
          IN  /\ rng = b[NumSamples].g
              /\ h = b[NumSamples].h
              /\ actions = b[NumSamples].actions
              /\ log_probs = b[NumSamples].log_probs
              /\ values = b[NumSamples].values
              /\ rewards = [i \in 1..NumSamples |->
                               <<Correct(netParams, ArchSig("ppo", b[i].actions), 1), 1>>]
              /\ log_probs_list = [i \in 1..NumSamples |-> b[i].log_probs]
              /\ values_list = [i \in 1..NumSamples |-> b[i].values]
              /\ actions_list = [i \in 1..NumSamples |-> b[i].actions]
              /\ trajs = [i \in 1..NumSamples |-> b[i].log_probs]
    /\ evals = NumSamples
    /\ reward = Unbound
    /\ newActions = <<>>
    /\ newLogProbs = <<>>
    /\ inner = 0
    /\ loss = <<>>
    /\ calls = <<>>
    /\ callN = 0
    /\ callG0 = <<0, 0>>
    /\ callSteps = <<>>

SpecPpo == InitPpo /\ [][PpoStep]_vars

(***************************************************************************)
(* Properties                                                              *)
(***************************************************************************)
\* The trajectories the controller update of each loop has at hand.
TrajectoriesKept == IF variant = "enas" THEN <<log_probs>> ELSE log_probs_list

\* The sampling loop has finished and the controller update is about to run
\* or is running.
AtUpdate == (pc = "sample" /\ Len(rewards) = NumSamples) \/ pc = "ppo" \/ pc = "update"

AllEqual(t) == \A i, j \in 1..Len(t) : t[i] = t[j]

\* C1: every returned call of the sampler with num_cells >= 1 returns without
\* error an architecture with as many actions as decisions were configured
\* (n for Controller.forward; n groups of NUM_NODES * 3 for the cell-based
\* controllers), one log-probability per decision, and every action index in
\* [0, NUM_OPS).
C1_SampledArchitectureShape ==
    \A i \in 1..Len(calls) :
        LET c == calls[i]
        IN  c.n >= 1 =>
               /\ c.err = NoError
               /\ Len(c.actions) = c.n
               /\ IF variant = "enas"
                  THEN /\ Len(c.log_probs) = c.n
                       /\ \A j \in 1..Len(c.actions) : c.actions[j] \in 0..(NumOpsLayer - 1)
                  ELSE /\ Len(c.log_probs) = c.n * NUM_NODES * 3
                       /\ \A j \in 1..Len(c.actions) :
                             /\ Len(c.actions[j]) = NUM_NODES * 3
                             /\ \A k \in 1..Len(c.actions[j]) :
                                   c.actions[j][k] \in 0..(NumOpsCell - 1)

C1_Witness ==
    /\ variant = "ppo"
    /\ Len(calls) = 2
    /\ calls[1].n = 1 /\ calls[1].err = NoError
    /\ calls[2].n = MaxCells /\ calls[2].err = NoError
    /\ \E k \in 1..(NUM_NODES * 3) : calls[2].actions[MaxCells][k] = NumOpsCell - 1

\* C2: with non-empty training and validation data no run of a search loop
\* aborts: the sampling of the controller phase starts only when every
\* minibatch has been consumed, and the loop is done only after num_epochs
\* completed controller phases.
C2_EpochsRunToCompletion ==
    (trainLen > 0 /\ valLen > 0) =>
        /\ err = NoError
        /\ (pc = "sample" => batch = trainLen)
        /\ (pc = "done" => epoch = num_epochs)

\* C3: a step changes the network's parameters only in the shared-weight phase
\* and then leaves the controller's alone; a step changes the controller's
\* parameters only in the controller phase, after the sampling loop, and then
\* leaves the network's alone; an iteration of the sampling loop (sample and
\* evaluate) changes neither.
C3_ParamsChangeOnlyInOwnPhase ==
    [][ /\ (netParams' # netParams => (pc = "train" /\ ctrlParams' = ctrlParams))
        /\ (ctrlParams' # ctrlParams =>
               /\ pc \in {"sample", "ppo"}
               /\ Len(rewards) = NumSamples
               /\ netParams' = netParams)
        /\ ((pc = "sample" /\ Len(rewards) < NumSamples) =>
               (netParams' = netParams /\ ctrlParams' = ctrlParams)) ]_vars

C3_Witness ==
    /\ netParams >= 1
    /\ ctrlParams >= 1
    /\ pc = "sample"
    /\ evals >= 1

\* C4: once train_enas has run its controller update, the local reward holds
\* the rewards of the phase minus their mean, and when all rewards are equal
\* every advantage is zero and the loss was computed from them.
C4_AdvantageIsCenteredReward ==
    (variant = "enas" /\ (pc = "update" \/ (pc = "loop" /\ epoch > 0))) =>
        /\ reward.bound
        /\ Len(reward.t) = Len(rewards)
        /\ \A i \in 1..Len(reward.t) : IsZero(RatSub(reward.t[i], RatSub(rewards[i], Mean(rewards))))
        /\ (AllEqual(rewards) =>
               /\ \A i \in 1..Len(reward.t) : IsZero(reward.t[i])
               /\ err = NoError)

\* The log-probabilities of the actions of the collected batch re-evaluated
\* under parameters p: each architecture from the zero recurrent state.
Rescore(p, acts_list) ==
    Cat([i \in 1..Len(acts_list) |->
            LET flat == Cat(acts_list[i])
            IN  [j \in 1..Len(flat) |-> LogProb(p, LstmIter(0, j), flat[j])]])

\* C5: after ppo_update has re-run the controller, new_log_probs are the
\* log-probabilities of the batch's sampled actions under the parameters the
\* call ran with.
C5_NewLogProbsOfSampledActions ==
    (pc = "ppo" /\ Len(newLogProbs) > 0) =>
        newLogProbs = Rescore(IF err = NoError THEN ctrlParams - 1 ELSE ctrlParams,
                              actions_list)

\* C6: a training step on an architecture whose number of decisions differs
\* from the number the network expects (actions and layers of SharedCNN; action
\* groups and cells of Network; entries of a group and nodes of Cell) ends
\* with an error and without an optimizer step.
C6_MismatchedArchitectureRejected ==
    LET mismatch ==
            IF netKind = "SharedCNN" THEN Len(actions) # NUM_LAYERS
            ELSE \/ Len(actions) # numCells
                 \/ \E i \in 1..Len(actions) : Len(actions[i]) # NUM_NODES
    IN  (pc = "stepped" /\ mismatch) => (err # NoError /\ netParams = 0)

\* C7: a loop whose training data yields no minibatch never gets to the
\* controller phase, and a loop whose validation data yields no example never
\* appends a reward nor gets to the controller update.
C7_EmptyPhaseHalts ==
    /\ (trainLen = 0 => (pc \notin {"sample", "ppo", "update"} /\ epoch = 0))
    /\ (valLen = 0 => (rewards = <<>> /\ pc \notin {"ppo", "update"} /\ epoch = 0))

\* C8: two returned calls of the sampler with the same num_cells, the same
\* controller parameters and the generator in the same state when they began
\* return the same architecture and the same log-probabilities.
C8_SamplingDeterministic ==
    \A i, j \in 1..Len(calls) :
        (calls[i].n = calls[j].n /\ calls[i].p = calls[j].p /\ calls[i].g0 = calls[j].g0) =>
            /\ calls[i].err = calls[j].err
            /\ calls[i].actions = calls[j].actions
            /\ calls[i].log_probs = calls[j].log_probs

C8_Witness ==
    /\ Len(calls) = 2
    /\ calls[1].n >= 1
    /\ calls[1].n = calls[2].n
    /\ calls[1].p = calls[2].p
    /\ calls[1].g0 = calls[2].g0
    /\ calls[1].err = NoError

\* C9: in train_enas_ppo no inner update step aborts; the controller has taken
\* 5 steps per completed epoch plus the inner steps of the running one, all
\* after 10 architectures were sampled and evaluated; and during the inner
\* loop the batch is the one that was sampled.
C9_FivePpoStepsPerEpoch ==
    variant = "ppo" =>
        /\ (pc = "ppo" => err = NoError)
        /\ ctrlParams = PpoSteps * epoch + (IF pc = "ppo" THEN inner ELSE 0)
        /\ (pc = "ppo" =>
               /\ evals = NumSamples
               /\ Len(rewards) = NumSamples
               /\ log_probs_list = trajs)

\* C10: when the controller update is reached, 10 architectures have been
\* sampled and evaluated once each, and the update has the trajectory of every
\* one of them, in the order of their rewards.
C10_AllTrajectoriesAtUpdate ==
    AtUpdate =>
        /\ Len(trajs) = NumSamples
        /\ evals = NumSamples
        /\ Len(rewards) = NumSamples
        /\ TrajectoriesKept = trajs

\* C12: after every ppo_update call of train_enas_ppo, for any number of
\* network cells, the new log-probabilities have as many entries as the old
\* log-probabilities and the old values, 10 * len(network.cells) * NUM_NODES * 3.
C12_NewAndOldLogProbsAligned ==
    (variant = "ppo" /\ Len(newLogProbs) > 0) =>
        /\ Len(newLogProbs) = Len(OldLogProbs)
        /\ Len(OldValues) = Len(OldLogProbs)
        /\ Len(OldLogProbs) = NumSamples * numCells * NUM_NODES * 3

\* C11: within a sample call the recurrent state and the logits at decision
\* step t depend only on the controller parameters and on t: any two calls
\* under the same parameters, the running one included, have the same
\* recurrent state and the same logits at every step both have reached,
\* whatever actions they drew before it.
SameStateAndLogits(s1, s2) ==
    \A t \in 1..Min(Len(s1), Len(s2)) :
        s1[t].h = s2[t].h /\ s1[t].logits = s2[t].logits

C11_StateIndependentOfDraws ==
    \A i \in 1..Len(calls) :
        /\ \A j \in 1..Len(calls) :
               calls[i].p = calls[j].p => SameStateAndLogits(calls[i].steps, calls[j].steps)
        /\ (pc = "run" /\ calls[i].p = ctrlParams) =>
               SameStateAndLogits(calls[i].steps, callSteps)

\* Two returned calls under the same parameters whose draws differ at a step
\* that is followed by a later step in both.
C11_Witness ==
    /\ Len(calls) = 2
    /\ calls[1].p = calls[2].p
    /\ calls[1].err = NoError /\ calls[2].err = NoError
    /\ \E t \in 1..(Min(Len(calls[1].steps), Len(calls[2].steps)) - 1) :
          calls[1].steps[t].a # calls[2].steps[t].a

====
